---- MODULE Spec2Model ----
(***************************************************************************)
(* Model of the floating-point precision codec of source/precision.c.      *)
(*                                                                         *)
(* A C `float` is modelled by its IEEE-754 binary32 fields, the record     *)
(* [s, e, m] (sign, biased exponent, fraction).  A uint32_t is modelled    *)
(* by its two 16-bit halves, the record [hi, lo], with all arithmetic      *)
(* reduced modulo 2^32; uint16_t values are integers in 0..65535 and       *)
(* uint8_t values integers in 0..255.                                      *)
(* Float arithmetic (fabsf, *, +) is IEEE-754 round-to-nearest-even.       *)
(***************************************************************************)
EXTENDS Integers, Sequences, FiniteSets

VARIABLES op, x, w, h, b8, cl, pc, call, frame, ret

codec == <<op, x, w, h, b8, cl>>

callers == <<pc, call, frame, ret>>

vars == <<op, x, w, h, b8, cl, pc, call, frame, ret>>

(***************************************************************************)
(* Bounds of the input space.                                              *)
(***************************************************************************)
\* exponents within ExpSpan of a critical exponent are drawn as inputs
ExpSpan == 1
\* number of fraction bit positions (taken from BitPos) that inputs combine
MantBits == 6

\* the significand argument of float_is_close ranges over -MaxSig..MaxSig
MaxSig == 4

\* the number of concurrent callers of the codec
NCallers == 2

Pow2(n) == 2 ^ n

(***************************************************************************)
(* uint32_t / uint16_t arithmetic.                                         *)
(***************************************************************************)
U32(hi, lo) == [hi |-> hi, lo |-> lo]

RECURSIVE BitAnd16(_, _, _)
BitAnd16(a, b, n) ==
    IF n = 0 THEN 0
    ELSE (a % 2) * (b % 2) + 2 * BitAnd16(a \div 2, b \div 2, n - 1)

And16(a, b) == BitAnd16(a, b, 16)

Or16(a, b) == a + b - And16(a, b)

And32(a, b) == U32(And16(a.hi, b.hi), And16(a.lo, b.lo))

Or32(a, b) == U32(Or16(a.hi, b.hi), Or16(a.lo, b.lo))

Add32(a, b) ==
    LET lo == a.lo + b.lo
    IN  U32((a.hi + b.hi + lo \div 65536) % 65536, lo % 65536)

Sub32(a, c) ==
    LET lo == a.lo - c.lo
        borrow == IF lo < 0 THEN 1 ELSE 0
    IN  U32((a.hi - c.hi - borrow) % 65536, lo % 65536)

Shr32(a, n) ==
    IF n >= 16
    THEN U32(0, a.hi \div Pow2(n - 16))
    ELSE U32(a.hi \div Pow2(n),
             (a.lo \div Pow2(n)) + (a.hi % Pow2(n)) * Pow2(16 - n))

Shl32(a, n) ==
    IF n >= 16
    THEN U32((a.lo * Pow2(n - 16)) % 65536, 0)
    ELSE U32((a.hi * Pow2(n) + a.lo \div Pow2(16 - n)) % 65536,
             (a.lo * Pow2(n)) % 65536)

Lt32(a, b) == a.hi < b.hi \/ (a.hi = b.hi /\ a.lo < b.lo)

Gt32(a, b) == Lt32(b, a)

\* conversion of a uint32_t expression to a 16-bit return type
Trunc16(a) == a.lo

\* conversion of a uint32_t expression to an 8-bit return type
Trunc8(a) == a.lo % 256

\* conversion of a negative int constant to uint32_t
Neg32(n) == Sub32(U32(0, 0), U32(0, n))

\* promotion of a uint16_t to uint32_t
Ext32(n) == U32(0, n)

(***************************************************************************)
(* The float values.                                                       *)
(***************************************************************************)
F32(s, e, m) == [s |-> s, e |-> e, m |-> m]

IsNaN(v) == v.e = 255 /\ v.m # 0

IsInf(v) == v.e = 255 /\ v.m = 0

IsZero(v) == v.e = 0 /\ v.m = 0

\* the macros NAN and INFINITY of <math.h>, and the literals 0.0f, -0.0f
NAN == F32(0, 255, \h400000)

INFINITY == F32(0, 255, 0)

PosZero == F32(0, 0, 0)

NegZero == F32(1, 0, 0)

(***************************************************************************)
(* encode_float32 / decode_float32: the union float_data_t overlays the    *)
(* float on the 32-bit word, sign in bit 31, exponent in bits 30..23.      *)
(***************************************************************************)
\* the mutation of encode_float32 that canonicalises every NaN
encode_float32_canon(value) ==
    IF value.e = 255 /\ value.m # 0
    THEN U32(\h7FC0, \h0000)
    ELSE U32(value.s * 32768 + value.e * 128 + value.m \div 65536,
             value.m % 65536)

encode_float32(value) ==
    U32(value.s * 32768 + value.e * 128 + value.m \div 65536,
        value.m % 65536)

decode_float32(bits) ==
    F32(bits.hi \div 32768,
        (bits.hi \div 128) % 256,
        (bits.hi % 128) * 65536 + bits.lo)

(***************************************************************************)
(* encode_bfloat16 / decode_bfloat16.                                      *)
(***************************************************************************)
\* the mutation of encode_bfloat16 that leaves a NaN's quiet bit as it is
encode_bfloat16_noquiet(value) ==
    LET bits == encode_float32(value)
        rounding_bias ==
            IF Gt32(And32(bits, U32(\h0000, \hffff)), U32(\h0000, \h7fff))
            THEN 1
            ELSE IF And32(bits, U32(\h0001, \h8000)) = U32(\h0001, \h8000)
                 THEN 1
                 ELSE 0
    IN  IF Gt32(And32(bits, U32(\h7fff, \hffff)), U32(\h7f80, \h0000))
        THEN Trunc16(Shr32(bits, 16))
        ELSE IF And32(bits, U32(\h7f80, \h0000)) = U32(0, 0)
             THEN Trunc16(And32(Shr32(bits, 16), U32(\h0000, \h8000)))
             ELSE Trunc16(Shr32(Add32(bits, Ext32(rounding_bias)), 16))

\* the mutation of encode_bfloat16 that does not flush subnormals
encode_bfloat16_noflush(value) ==
    LET bits == encode_float32(value)
        rounding_bias ==
            IF Gt32(And32(bits, U32(\h0000, \hffff)), U32(\h0000, \h7fff))
            THEN 1
            ELSE IF And32(bits, U32(\h0001, \h8000)) = U32(\h0001, \h8000)
                 THEN 1
                 ELSE 0
    IN  IF Gt32(And32(bits, U32(\h7fff, \hffff)), U32(\h7f80, \h0000))
        THEN Trunc16(Or32(Shr32(bits, 16), U32(\h0000, \h0040)))
        ELSE IF And32(bits, U32(\h7f80, \h0000)) = U32(0, 0)
             THEN Trunc16(Shr32(bits, 16))
             ELSE Trunc16(Shr32(Add32(bits, Ext32(rounding_bias)), 16))

\* the mutation of encode_bfloat16 that takes Infinity for a NaN (>=)
encode_bfloat16_infnan(value) ==
    LET bits == encode_float32(value)
        rounding_bias ==
            IF Gt32(And32(bits, U32(\h0000, \hffff)), U32(\h0000, \h7fff))
            THEN 1
            ELSE IF And32(bits, U32(\h0001, \h8000)) = U32(\h0001, \h8000)
                 THEN 1
                 ELSE 0
    IN  IF ~Lt32(And32(bits, U32(\h7fff, \hffff)), U32(\h7f80, \h0000))
        THEN Trunc16(Or32(Shr32(bits, 16), U32(\h0000, \h0040)))
        ELSE IF And32(bits, U32(\h7f80, \h0000)) = U32(0, 0)
             THEN Trunc16(And32(Shr32(bits, 16), U32(\h0000, \h8000)))
             ELSE Trunc16(Shr32(Add32(bits, Ext32(rounding_bias)), 16))

encode_bfloat16(value) ==
    LET bits == encode_float32(value)
        rounding_bias ==
            IF Gt32(And32(bits, U32(\h0000, \hffff)), U32(\h0000, \h7fff))
            THEN 1
            ELSE IF And32(bits, U32(\h0001, \h8000)) = U32(\h0001, \h8000)
                 THEN 1
                 ELSE 0
    IN  IF Gt32(And32(bits, U32(\h7fff, \hffff)), U32(\h7f80, \h0000))
        THEN Trunc16(Or32(Shr32(bits, 16), U32(\h0000, \h0040)))
        ELSE IF And32(bits, U32(\h7f80, \h0000)) = U32(0, 0)
             THEN Trunc16(And32(Shr32(bits, 16), U32(\h0000, \h8000)))
             ELSE Trunc16(Shr32(Add32(bits, Ext32(rounding_bias)), 16))

decode_bfloat16(bits) ==
    LET result == Shl32(Ext32(bits), 16)
    IN  IF And32(result, U32(\h7f80, \h0000)) = U32(\h7f80, \h0000)
        THEN IF And32(result, U32(\h0040, \h0000)) # U32(0, 0)
             THEN NAN
             ELSE INFINITY
        ELSE IF And32(result, U32(\h7f80, \h0000)) = U32(0, 0)
             THEN IF And32(result, U32(\h8000, \h0000)) # U32(0, 0)
                  THEN NegZero
                  ELSE PosZero
             ELSE decode_float32(result)

(***************************************************************************)
(* IEEE-754 binary32 arithmetic as the compiled code performs it:          *)
(* round-to-nearest, ties-to-even, with gradual underflow.                 *)
(***************************************************************************)
fabsf(v) == F32(0, v.e, v.m)

fneg(v) == F32(1 - v.s, v.e, v.m)

\* an arithmetic operation on a NaN returns that NaN with its quiet bit set
Quiet(v) == F32(v.s, 255, IF v.m < \h400000 THEN v.m + \h400000 ELSE v.m)

\* the NaN an invalid operation (Infinity - Infinity) produces
DefaultNaN == F32(1, 255, \h400000)

\* a finite v is Sig(v) * 2^(Exp(v) - 150)
Exp(v) == IF v.e = 0 THEN 1 ELSE v.e

Sig(v) == IF v.e = 0 THEN v.m ELSE v.m + \h800000

\* sig / 2^n rounded to nearest, ties to even (sig < 2^28)
RoundShift(sig, n) ==
    IF n = 0 THEN sig
    ELSE IF n > 29 THEN 0
    ELSE LET q == sig \div Pow2(n)
             r == sig % Pow2(n)
             half == Pow2(n - 1)
         IN  IF r > half \/ (r = half /\ q % 2 = 1) THEN q + 1 ELSE q

\* sig / 2^n truncated, any lost bit kept as a sticky least-significant bit
ShiftJam(sig, n) ==
    IF n = 0 THEN sig
    ELSE IF n > 29 THEN (IF sig # 0 THEN 1 ELSE 0)
    ELSE LET q == sig \div Pow2(n)
         IN  IF sig % Pow2(n) # 0 /\ q % 2 = 0 THEN q + 1 ELSE q

\* number of left shifts that bring a nonzero significand to [2^23, 2^24)
RECURSIVE NormShift(_)
NormShift(sig) == IF sig >= \h800000 THEN 0 ELSE 1 + NormShift(2 * sig)

\* the float of sign s and value sig * 2^(E - 150), E >= 1, sig <= 2^24
RECURSIVE Pack(_, _, _)
Pack(s, E, sig) ==
    IF sig >= \h1000000 THEN Pack(s, E + 1, sig \div 2)
    ELSE IF sig < \h800000 THEN F32(s, 0, sig)
    ELSE IF E >= 255 THEN F32(s, 255, 0)
    ELSE F32(s, E, sig - \h800000)

\* a * b where b is a power of two (fraction field 0, normal exponent):
\* every product of precision.c has such a constant as its second operand
fmul(a, b) ==
    LET s == (a.s + b.s) % 2
        n == NormShift(Sig(a))
        E == Exp(a) - n + (b.e - 127)
        sig == Sig(a) * Pow2(n)
    IN  IF IsNaN(a) THEN Quiet(a)
        ELSE IF IsInf(a) THEN F32(s, 255, 0)
        ELSE IF IsZero(a) THEN F32(s, 0, 0)
        ELSE IF E >= 1 THEN Pack(s, E, sig)
        ELSE Pack(s, 1, RoundShift(sig, 1 - E))

\* a + b of two finite floats
faddFinite(a, b) ==
    LET aBig == Exp(a) > Exp(b) \/ (Exp(a) = Exp(b) /\ Sig(a) >= Sig(b))
        big == IF aBig THEN a ELSE b
        small == IF aBig THEN b ELSE a
        B == Sig(big) * 8
        S == ShiftJam(Sig(small) * 8, Exp(big) - Exp(small))
        sum == B + S
        diff == B - S
        n == IF diff >= \h4000000 THEN 0
             ELSE LET k == NormShift(diff \div 8)
                  IN  IF k < Exp(big) THEN k ELSE Exp(big) - 1
    IN  IF a.s = b.s
        THEN IF sum >= \h8000000
             THEN Pack(a.s, Exp(big) + 1, RoundShift(ShiftJam(sum, 1), 3))
             ELSE Pack(a.s, Exp(big), RoundShift(sum, 3))
        ELSE IF diff = 0 THEN PosZero
        ELSE Pack(big.s, Exp(big) - n, RoundShift(diff * Pow2(n), 3))

fadd(a, b) ==
    IF IsNaN(a) THEN Quiet(a)
    ELSE IF IsNaN(b) THEN Quiet(b)
    ELSE IF IsInf(a) THEN (IF IsInf(b) /\ a.s # b.s THEN DefaultNaN ELSE a)
    ELSE IF IsInf(b) THEN b
    ELSE faddFinite(a, b)

(***************************************************************************)
(* encode_float16.                                                         *)
(***************************************************************************)
\* the mutation of scale_to_inf to 2^111
scale_to_inf_half == decode_float32(U32(\h7700, \h0000))

\* 2^112: |value| * scale_to_inf overflows to Infinity from 2^16 on
scale_to_inf == decode_float32(U32(\h7780, \h0000))

\* the mutation of scale_to_zero to 2^-109
scale_to_zero_twice == decode_float32(U32(\h0900, \h0000))

\* 2^-110
scale_to_zero == decode_float32(U32(\h0880, \h0000))

\* the mutation of bias that omits the lower limit
bias_nolimit(value) ==
    LET f == encode_float32(value)
        shl1_f == Add32(f, f)
    IN  And32(shl1_f, U32(\hFF00, \h0000))

\* the 32-bit exponent of value shifted into bits 31..24, at least 0x71
bias(value) ==
    LET f == encode_float32(value)
        shl1_f == Add32(f, f)
        bias0 == And32(shl1_f, U32(\hFF00, \h0000))
    IN  IF Lt32(bias0, U32(\h7100, \h0000))
        THEN U32(\h7100, \h0000)
        ELSE bias0

\* the float whose low bits, after the addition's rounding, are the half
base(value) ==
    LET saturated_f == fmul(fabsf(value), scale_to_inf)
        base0 == fmul(saturated_f, scale_to_zero)
    IN  fadd(decode_float32(Add32(Shr32(bias(value), 1),
                                  U32(\h0780, \h0000))),
             base0)

\* the mutation of encode_float16 that masks a 10-bit mantissa
encode_float16_mask10(value) ==
    LET f == encode_float32(value)
        shl1_f == Add32(f, f)
        sign == And32(f, U32(\h8000, \h0000))
        bits == encode_float32(base(value))
        exp_bits == And32(Shr32(bits, 13), U32(\h0000, \h7C00))
        mantissa_bits == And32(bits, U32(\h0000, \h03FF))
        nonsign == Add32(exp_bits, mantissa_bits)
    IN  Trunc16(Or32(Shr32(sign, 16),
                     IF Gt32(shl1_f, U32(\hFF00, \h0000))
                     THEN Ext32(\h7E00)
                     ELSE nonsign))

\* the mutation of encode_float16 that tests f, not shl1_f, for NaN
encode_float16_nansign(value) ==
    LET f == encode_float32(value)
        sign == And32(f, U32(\h8000, \h0000))
        bits == encode_float32(base(value))
        exp_bits == And32(Shr32(bits, 13), U32(\h0000, \h7C00))
        mantissa_bits == And32(bits, U32(\h0000, \h0FFF))
        nonsign == Add32(exp_bits, mantissa_bits)
    IN  Trunc16(Or32(Shr32(sign, 16),
                     IF Gt32(f, U32(\hFF00, \h0000))
                     THEN Ext32(\h7E00)
                     ELSE nonsign))

encode_float16(value) ==
    LET f == encode_float32(value)
        shl1_f == Add32(f, f)
        sign == And32(f, U32(\h8000, \h0000))
        bits == encode_float32(base(value))
        exp_bits == And32(Shr32(bits, 13), U32(\h0000, \h7C00))
        mantissa_bits == And32(bits, U32(\h0000, \h0FFF))
        nonsign == Add32(exp_bits, mantissa_bits)
    IN  Trunc16(Or32(Shr32(sign, 16),
                     IF Gt32(shl1_f, U32(\hFF00, \h0000))
                     THEN Ext32(\h7E00)
                     ELSE nonsign))

fsub(a, c) == IF IsNaN(c) /\ ~IsNaN(a) THEN Quiet(c) ELSE fadd(a, fneg(c))

(***************************************************************************)
(* decode_float16.                                                         *)
(***************************************************************************)
\* the mutation of decode_float16 whose cutoff is 1 << 26
decode_float16_cutoff26(bits) ==
    LET f == Shl32(Ext32(bits), 16)
        sign == And32(f, U32(\h8000, \h0000))
        shl1_f == Add32(f, f)
        exp_offset == Shl32(U32(\h0000, \h00E0), 23)
        exp_scale == decode_float32(U32(\h0780, \h0000))
        normalized_value ==
            fmul(decode_float32(Add32(Shr32(shl1_f, 4), exp_offset)),
                 exp_scale)
        magic_mask == Shl32(U32(0, 126), 23)
        magic_bias == F32(0, 126, 0)
        denormalized_value ==
            fsub(decode_float32(Or32(Shr32(shl1_f, 17), magic_mask)),
                 magic_bias)
        denormalized_cutoff == Shl32(U32(0, 1), 26)
        result ==
            Or32(sign,
                 IF Lt32(shl1_f, denormalized_cutoff)
                 THEN encode_float32(denormalized_value)
                 ELSE encode_float32(normalized_value))
    IN  decode_float32(result)

\* the mutation of decode_float16 whose exp_offset is 0x70 << 23
decode_float16_offset70(bits) ==
    LET f == Shl32(Ext32(bits), 16)
        sign == And32(f, U32(\h8000, \h0000))
        shl1_f == Add32(f, f)
        exp_offset == Shl32(U32(\h0000, \h0070), 23)
        exp_scale == decode_float32(U32(\h0780, \h0000))
        normalized_value ==
            fmul(decode_float32(Add32(Shr32(shl1_f, 4), exp_offset)),
                 exp_scale)
        magic_mask == Shl32(U32(0, 126), 23)
        magic_bias == F32(0, 126, 0)
        denormalized_value ==
            fsub(decode_float32(Or32(Shr32(shl1_f, 17), magic_mask)),
                 magic_bias)
        denormalized_cutoff == Shl32(U32(0, 1), 27)
        result ==
            Or32(sign,
                 IF Lt32(shl1_f, denormalized_cutoff)
                 THEN encode_float32(denormalized_value)
                 ELSE encode_float32(normalized_value))
    IN  decode_float32(result)

\* the mutation of decode_float16 that does not restore the sign
decode_float16_nosign(bits) ==
    LET f == Shl32(Ext32(bits), 16)
        sign == And32(f, U32(\h8000, \h0000))
        shl1_f == Add32(f, f)
        exp_offset == Shl32(U32(\h0000, \h00E0), 23)
        exp_scale == decode_float32(U32(\h0780, \h0000))
        normalized_value ==
            fmul(decode_float32(Add32(Shr32(shl1_f, 4), exp_offset)),
                 exp_scale)
        magic_mask == Shl32(U32(0, 126), 23)
        magic_bias == F32(0, 126, 0)
        denormalized_value ==
            fsub(decode_float32(Or32(Shr32(shl1_f, 17), magic_mask)),
                 magic_bias)
        denormalized_cutoff == Shl32(U32(0, 1), 27)
        result ==
            IF Lt32(shl1_f, denormalized_cutoff)
            THEN encode_float32(denormalized_value)
            ELSE encode_float32(normalized_value)
    IN  decode_float32(result)

decode_float16(bits) ==
    LET f == Shl32(Ext32(bits), 16)
        sign == And32(f, U32(\h8000, \h0000))
        shl1_f == Add32(f, f)
        exp_offset == Shl32(U32(\h0000, \h00E0), 23)
        exp_scale == decode_float32(U32(\h0780, \h0000))
        normalized_value ==
            fmul(decode_float32(Add32(Shr32(shl1_f, 4), exp_offset)),
                 exp_scale)
        magic_mask == Shl32(U32(0, 126), 23)
        magic_bias == F32(0, 126, 0)
        denormalized_value ==
            fsub(decode_float32(Or32(Shr32(shl1_f, 17), magic_mask)),
                 magic_bias)
        denormalized_cutoff == Shl32(U32(0, 1), 27)
        result ==
            Or32(sign,
                 IF Lt32(shl1_f, denormalized_cutoff)
                 THEN encode_float32(denormalized_value)
                 ELSE encode_float32(normalized_value))
    IN  decode_float32(result)

(***************************************************************************)
(* encode_float8 / decode_float8.  sign, exponent and mantissa are         *)
(* uint32_t: differences wrap modulo 2^32 and the int constants 0 and -3   *)
(* are converted to uint32_t before the comparisons.                       *)
(***************************************************************************)
encode_float8(value) ==
    LET f == encode_float32(value)
        sign == And32(Shr32(f, 7), U32(0, \h1))
        exponent ==
            Add32(Sub32(And32(Shr32(f, 23), U32(0, \hFF)), U32(0, 127)),
                  U32(0, 3))
        mantissa == And32(Shr32(f, 19), U32(0, \h0F))
        \* mantissa |= 0x10; mantissa >>= (1 - exponent)
        adjusted ==
            Shr32(Or32(mantissa, U32(0, \h10)),
                  Sub32(U32(0, 1), exponent).lo)
    IN  IF ~Gt32(exponent, U32(0, 0))
        THEN IF Lt32(exponent, Neg32(3))
             THEN Trunc8(Shl32(sign, 7))
             ELSE Trunc8(Or32(Shl32(sign, 7), And32(adjusted, U32(0, \h7F))))
        ELSE IF ~Lt32(exponent, U32(0, 7))
             THEN Trunc8(Or32(Shl32(sign, 7), U32(0, \h78)))
             ELSE Trunc8(Or32(Or32(Shl32(sign, 7), Shl32(exponent, 4)),
                              mantissa))

\* the mutation of decode_float8 that masks a 3-bit mantissa
decode_float8_mant3(bits) ==
    LET sign == U32(0, (bits \div 128) % 2)
        exponent == U32(0, (bits \div 16) % 8)
        mantissa == U32(0, bits % 8)
        subnormal_exponent == Neg32(2)
        normal_exponent == Add32(Sub32(exponent, U32(0, 3)), U32(0, 127))
    IN  IF exponent = U32(0, 0)
        THEN IF mantissa = U32(0, 0)
             THEN (IF sign # U32(0, 0) THEN NegZero ELSE PosZero)
             ELSE decode_float32(
                      Or32(Or32(Shl32(sign, 31),
                                Shl32(subnormal_exponent, 23)),
                           Shl32(mantissa, 19)))
        ELSE IF exponent = U32(0, 7)
             THEN IF mantissa = U32(0, 0)
                  THEN (IF sign # U32(0, 0) THEN fneg(INFINITY) ELSE INFINITY)
                  ELSE NAN
             ELSE decode_float32(
                      Or32(Or32(Shl32(sign, 31), Shl32(normal_exponent, 23)),
                           Shl32(mantissa, 19)))

decode_float8(bits) ==
    LET sign == U32(0, (bits \div 128) % 2)
        exponent == U32(0, (bits \div 16) % 8)
        mantissa == U32(0, bits % 16)
        subnormal_exponent == Neg32(2)
        normal_exponent == Add32(Sub32(exponent, U32(0, 3)), U32(0, 127))
    IN  IF exponent = U32(0, 0)
        THEN IF mantissa = U32(0, 0)
             THEN (IF sign # U32(0, 0) THEN NegZero ELSE PosZero)
             ELSE decode_float32(
                      Or32(Or32(Shl32(sign, 31),
                                Shl32(subnormal_exponent, 23)),
                           Shl32(mantissa, 19)))
        ELSE IF exponent = U32(0, 7)
             THEN IF mantissa = U32(0, 0)
                  THEN (IF sign # U32(0, 0) THEN fneg(INFINITY) ELSE INFINITY)
                  ELSE NAN
             ELSE decode_float32(
                      Or32(Or32(Shl32(sign, 31), Shl32(normal_exponent, 23)),
                           Shl32(mantissa, 19)))

(***************************************************************************)
(* The inputs.                                                             *)
(***************************************************************************)
\* exponent fields at which the conversions change behaviour
CritExps == {0, 102, 103, 113, 121, 124, 127, 131, 134, 142, 143, 255}

ExpSet == {e \in 0..255 : \E c \in CritExps : e - c <= ExpSpan /\ c - e <= ExpSpan}

\* fraction bits that decide the roundings, most decisive first
BitPos == <<12, 13, 0, 16, 15, 22, 14, 21, 11, 17>>

RECURSIVE FracSums(_)
FracSums(k) ==
    IF k = 0 THEN {0}
    ELSE LET prev == FracSums(k - 1)
         IN  prev \cup {v + Pow2(BitPos[k]) : v \in prev}

MantSet == FracSums(MantBits) \cup {\h7FFFFF - v : v \in FracSums(MantBits)}

\* 1.0e10f, the overflow example of the test vectors, and +-65520.0f, the
\* midpoint between the largest finite half and 2^16
SpotInputs ==
    {F32(0, 160, \h1502F9), F32(0, 142, \h7FF000), F32(1, 142, \h7FF000)}
    \cup
    \* a NaN and a value near 1.0f whose fraction has bit 7 set
    {F32(0, 255, \h000080), F32(0, 127, \h000080)}

F32Inputs ==
    {F32(s, e, m) : s \in 0..1, e \in ExpSet, m \in MantSet} \cup SpotInputs

U32Inputs ==
    {U32(s * 32768 + e * 128 + m \div 65536, m % 65536) :
        s \in 0..1, e \in ExpSet, m \in MantSet}

\* the upper halves of the words, and the half patterns of every exponent
U16Inputs ==
    {u.hi : u \in U32Inputs} \cup
    {s * 32768 + e * 1024 + m \div 8192 :
        s \in 0..1, e \in 0..31, m \in MantSet}

U8Inputs == 0..255

(***************************************************************************)
(* float_is_close.  A double is a record of its class c ("fin", "inf" or   *)
(* "nan"), its sign bit s and, when finite, its magnitude n * 2^-23 * 10^q *)
(* (n = Unit is 1.0).  The arguments have q = 0: they are the doubles that *)
(* are multiples of 2^-23, which the arithmetic of the function handles    *)
(* without rounding; q carries the power of ten of the tolerance, so that  *)
(* the product and the comparisons are those of the exact values.          *)
(***************************************************************************)
Unit == 8388608

Dbl(c, s, n, q) == [c |-> c, s |-> s, n |-> n, q |-> q]

Fin(s, n) == Dbl("fin", s, n, 0)

RECURSIVE Pow10(_)
Pow10(e) == IF e = 0 THEN 1 ELSE 10 * Pow10(e - 1)

isinf(v) == v.c = "inf"

isnan(v) == v.c = "nan"

fabs(v) == [v EXCEPT !.s = 0]

\* the signed number of units of a finite double with q = 0
Units(v) == IF v.s = 1 THEN 0 - v.n ELSE v.n

\* the mutation of deq that compares the representations
deq_bitwise(a, c) ==
    a = c

\* a == c on doubles: a NaN equals nothing, the two zeros are equal
deq(a, c) ==
    IF isnan(a) \/ isnan(c) THEN FALSE
    ELSE IF isinf(a) \/ isinf(c) THEN a.c = c.c /\ a.s = c.s
    ELSE Units(a) = Units(c)

\* a - c of two finite doubles
dsub(a, c) ==
    LET d == Units(a) - Units(c)
    IN  IF d < 0 THEN Fin(1, 0 - d) ELSE Fin(0, d)

\* pow(10.0, e)
pow(e) == Dbl("fin", 0, Unit, e)

\* t * v, t a power of ten
dmul(t, v) == Dbl("fin", (t.s + v.s) % 2, v.n, t.q + v.q)

\* a <= c of two finite doubles that are not negative
dle(a, c) ==
    LET d == c.q - a.q
        p == Pow10(IF d < 0 THEN 0 - d ELSE d)
    IN  IF d <= 0
        THEN (IF d < -9 THEN a.n <= 0 ELSE a.n <= c.n \div p)
        ELSE (IF d > 9 THEN a.n = 0 \/ c.n > 0
              ELSE a.n \div p + (IF a.n % p = 0 THEN 0 ELSE 1) <= c.n)

fmax(a, c) == IF dle(a, c) THEN c ELSE a

\* the mutation of float_is_close that takes pow(10.0, -significand) for
\* every significand
float_is_close_nobranch(a, c, significand) ==
    IF deq(a, c) THEN TRUE
    ELSE IF isinf(a) \/ isinf(c) \/ isnan(a) \/ isnan(c) THEN FALSE
    ELSE LET min_tolerance == pow(0 - significand)
             max_tolerance == dmul(min_tolerance, fmax(fabs(a), fabs(c)))
         IN  dle(fabs(dsub(a, c)), fmax(max_tolerance, min_tolerance))

\* the mutation of float_is_close whose relative tolerance is that of the
\* first argument
float_is_close_rel_a(a, c, significand) ==
    IF deq(a, c) THEN TRUE
    ELSE IF isinf(a) \/ isinf(c) \/ isnan(a) \/ isnan(c) THEN FALSE
    ELSE LET min_tolerance ==
                 IF significand >= 0 THEN pow(0 - significand)
                 ELSE pow(significand)
             max_tolerance == dmul(min_tolerance, fabs(a))
         IN  dle(fabs(dsub(a, c)), fmax(max_tolerance, min_tolerance))

\* the mutation of float_is_close without the early return of true: the
\* difference of two equal infinities is a NaN, which is below nothing
float_is_close_noshortcut(a, c, significand) ==
    IF isinf(a) \/ isinf(c) \/ isnan(a) \/ isnan(c) THEN FALSE
    ELSE LET min_tolerance ==
                 IF significand >= 0 THEN pow(0 - significand)
                 ELSE pow(significand)
             max_tolerance == dmul(min_tolerance, fmax(fabs(a), fabs(c)))
         IN  dle(fabs(dsub(a, c)), fmax(max_tolerance, min_tolerance))

\* the mutation of float_is_close that does not test isinf: with an
\* infinite argument the difference and the tolerance are both Infinity
float_is_close_noinf(a, c, significand) ==
    IF deq(a, c) THEN TRUE
    ELSE IF isnan(a) \/ isnan(c) THEN FALSE
    ELSE IF isinf(a) \/ isinf(c) THEN TRUE
    ELSE LET min_tolerance ==
                 IF significand >= 0 THEN pow(0 - significand)
                 ELSE pow(significand)
             max_tolerance == dmul(min_tolerance, fmax(fabs(a), fabs(c)))
         IN  dle(fabs(dsub(a, c)), fmax(max_tolerance, min_tolerance))

float_is_close(a, c, significand) ==
    IF deq(a, c) THEN TRUE
    ELSE IF isinf(a) \/ isinf(c) \/ isnan(a) \/ isnan(c) THEN FALSE
    ELSE LET min_tolerance ==
                 IF significand >= 0 THEN pow(0 - significand)
                 ELSE pow(significand)
             max_tolerance == dmul(min_tolerance, fmax(fabs(a), fabs(c)))
         IN  dle(fabs(dsub(a, c)), fmax(max_tolerance, min_tolerance))

(***************************************************************************)
(* The state machine: a caller holds a float in x, a 32-bit word in w or   *)
(* a 16-bit pattern in h or an 8-bit pattern in b8, and applies the        *)
(* codec's functions to the value it holds; op names the last function     *)
(* applied.                                                                *)
(***************************************************************************)
FloatOps ==
    {"arg_f32", "decode_float32", "decode_bfloat16", "decode_float16",
     "decode_float8"}

WordOps == {"arg_u32", "encode_float32"}

HalfOps == {"arg_u16", "encode_float16", "encode_bfloat16"}

ByteOps == {"arg_u8", "encode_float8"}

CloseOps == {"arg_close", "float_is_close", "float_is_close_swapped"}

\* the magnitudes of the finite arguments of float_is_close, in units of
\* 2^-23: 0, 2^-23, 0.5, 0.5005, 1.0, 1.0001f, 1.001, 1.1f, 1.125, 1.25,
\* 2.0, 100.0 and 100.05
CloseMagnitudes ==
    {0, 1, 4194304, 4198498, Unit, Unit + 839, Unit + 8389, Unit + 838861,
     9437184, 10485760, 2 * Unit, 100 * Unit, 100 * Unit + 419456}

DblInputs ==
    {Fin(s, n) : s \in 0..1, n \in CloseMagnitudes}
        \cup {Dbl("inf", 0, 0, 0), Dbl("inf", 1, 0, 0),
              Dbl("nan", 0, 0, 0), Dbl("nan", 1, 0, 0)}

SigInputs == (0 - MaxSig)..MaxSig

Frame_of(a, c, significand, result) ==
    [a |-> a, b |-> c, significand |-> significand, result |-> result]

NoClose == Frame_of(Fin(0, 0), Fin(0, 0), 0, FALSE)

Callers == 1..NCallers

\* the calls a concurrent caller makes: 10.0f and -1.5f and their encodings
CallSet ==
    {[fn |-> "encode_float32", par |-> v] :
        v \in {F32(0, 130, \h200000), F32(1, 127, \h400000)}}
    \cup {[fn |-> "decode_float32", par |-> v] :
        v \in {U32(\h4120, 0), U32(\hBFC0, 0)}}
    \cup {[fn |-> f, par |-> v] :
        f \in {"encode_float16", "encode_bfloat16", "encode_float8"},
        v \in {F32(0, 130, \h200000), F32(1, 127, \h400000)}}
    \cup {[fn |-> "decode_float16", par |-> v] : v \in {\h4900, \hBE00}}
    \cup {[fn |-> "decode_bfloat16", par |-> v] : v \in {\h4120, \hBFC0}}
    \cup {[fn |-> "decode_float8", par |-> v] : v \in {\h38, \hC4}}
    \cup {[fn |-> "float_is_close", par |-> v] :
        v \in {Frame_of(Fin(0, Unit), Fin(0, Unit + 839), 3, FALSE),
               Frame_of(Fin(0, Unit), Fin(0, Unit + 838861), 3, FALSE)}}

NoCall == [fn |-> "none", par |-> 0]

NoRet == [fn |-> "none", val |-> 0]

\* the value a function of the codec returns for its arguments
Apply(c) ==
    CASE c.fn = "encode_float32" -> encode_float32(c.par)
      [] c.fn = "decode_float32" -> decode_float32(c.par)
      [] c.fn = "encode_float16" -> encode_float16(c.par)
      [] c.fn = "decode_float16" -> decode_float16(c.par)
      [] c.fn = "encode_bfloat16" -> encode_bfloat16(c.par)
      [] c.fn = "decode_bfloat16" -> decode_bfloat16(c.par)
      [] c.fn = "encode_float8" -> encode_float8(c.par)
      [] c.fn = "decode_float8" -> decode_float8(c.par)
      [] c.fn = "float_is_close" ->
            float_is_close(c.par.a, c.par.b, c.par.significand)

\* the mutation of Frame that keeps the parameters and the locals of the
\* functions in static storage, one activation record for all callers
Frame_static(t) ==
    1

\* the activation record of a call: parameters and locals have automatic
\* storage, every caller's call has its own
Frame(t) ==
    t

Idle ==
    /\ pc = [t \in Callers |-> "idle"]
    /\ call = [t \in Callers |-> NoCall]
    /\ frame = [t \in Callers |-> NoCall]
    /\ ret = [t \in Callers |-> NoRet]

Init ==
    /\ Idle
    /\ \/ op = "arg_f32" /\ x \in F32Inputs /\ w = U32(0, 0) /\ h = 0
          /\ b8 = 0 /\ cl = NoClose
       \/ op = "arg_u32" /\ w \in U32Inputs /\ x = PosZero /\ h = 0
          /\ b8 = 0 /\ cl = NoClose
       \/ op = "arg_u16" /\ h \in U16Inputs /\ x = PosZero
          /\ w = U32(0, 0) /\ b8 = 0 /\ cl = NoClose
       \/ op = "arg_u8" /\ b8 \in U8Inputs /\ x = PosZero
          /\ w = U32(0, 0) /\ h = 0 /\ cl = NoClose
       \/ op = "arg_close" /\ x = PosZero /\ w = U32(0, 0) /\ h = 0
          /\ b8 = 0
          /\ \E a \in DblInputs, c \in DblInputs, n \in SigInputs :
                cl = Frame_of(a, c, n, FALSE)

Call_encode_float32 ==
    /\ op \in FloatOps
    /\ op' = "encode_float32"
    /\ w' = encode_float32(x)
    /\ h' = 0 /\ b8' = 0
    /\ UNCHANGED <<x, cl, callers>>

Call_decode_float32 ==
    /\ op \in WordOps
    /\ op' = "decode_float32"
    /\ x' = decode_float32(w)
    /\ h' = 0 /\ b8' = 0
    /\ UNCHANGED <<w, cl, callers>>

Call_encode_float16 ==
    /\ op \in FloatOps
    /\ op' = "encode_float16"
    /\ h' = encode_float16(x)
    /\ w' = U32(0, 0) /\ b8' = 0
    /\ UNCHANGED <<x, cl, callers>>

Call_encode_bfloat16 ==
    /\ op \in FloatOps
    /\ op' = "encode_bfloat16"
    /\ h' = encode_bfloat16(x)
    /\ w' = U32(0, 0) /\ b8' = 0
    /\ UNCHANGED <<x, cl, callers>>

Call_decode_bfloat16 ==
    /\ op \in HalfOps
    /\ op' = "decode_bfloat16"
    /\ x' = decode_bfloat16(h)
    /\ w' = U32(0, 0) /\ b8' = 0
    /\ UNCHANGED <<h, cl, callers>>

Call_decode_float16 ==
    /\ op \in HalfOps
    /\ op' = "decode_float16"
    /\ x' = decode_float16(h)
    /\ w' = U32(0, 0) /\ b8' = 0
    /\ UNCHANGED <<h, cl, callers>>

Call_encode_float8 ==
    /\ op \in FloatOps
    /\ op' = "encode_float8"
    /\ b8' = encode_float8(x)
    /\ w' = U32(0, 0) /\ h' = 0
    /\ UNCHANGED <<x, cl, callers>>

Call_decode_float8 ==
    /\ op \in ByteOps
    /\ op' = "decode_float8"
    /\ x' = decode_float8(b8)
    /\ w' = U32(0, 0) /\ h' = 0
    /\ UNCHANGED <<b8, cl, callers>>

Call_float_is_close ==
    /\ op = "arg_close"
    /\ op' = "float_is_close"
    /\ cl' = [cl EXCEPT
                 !.result = float_is_close(cl.a, cl.b, cl.significand)]
    /\ UNCHANGED <<x, w, h, b8, callers>>

\* the same call with the first two arguments exchanged
Call_float_is_close_swapped ==
    /\ op = "float_is_close"
    /\ op' = "float_is_close_swapped"
    /\ cl' = Frame_of(cl.b, cl.a, cl.significand,
                      float_is_close(cl.b, cl.a, cl.significand))
    /\ UNCHANGED <<x, w, h, b8, callers>>

Next ==
    \/ Call_encode_float32
    \/ Call_decode_float32
    \/ Call_encode_float16
    \/ Call_encode_bfloat16
    \/ Call_decode_bfloat16
    \/ Call_decode_float16
    \/ Call_encode_float8
    \/ Call_decode_float8
    \/ Call_float_is_close
    \/ Call_float_is_close_swapped

Spec == Init /\ [][Next]_vars

(***************************************************************************)
(* Concurrent callers.  A call is two steps: entering the function stores  *)
(* its parameters and locals in the activation record of the call, and     *)
(* returning computes the result from that record.  The steps of different *)
(* callers interleave in every order, and a caller that has returned may   *)
(* call again.                                                             *)
(***************************************************************************)
InitCallers ==
    /\ Idle
    /\ op = "callers" /\ x = PosZero /\ w = U32(0, 0) /\ h = 0 /\ b8 = 0
    /\ cl = NoClose

Enter(t) ==
    /\ pc[t] \in {"idle", "returned"}
    /\ \E c \in CallSet :
          /\ call' = [call EXCEPT ![t] = c]
          /\ frame' = [frame EXCEPT ![Frame(t)] = c]
    /\ pc' = [pc EXCEPT ![t] = "entered"]
    /\ ret' = [ret EXCEPT ![t] = NoRet]
    /\ UNCHANGED codec

Return(t) ==
    /\ pc[t] = "entered"
    /\ ret' = [ret EXCEPT ![t] = [fn |-> frame[Frame(t)].fn,
                                  val |-> Apply(frame[Frame(t)])]]
    /\ pc' = [pc EXCEPT ![t] = "returned"]
    /\ UNCHANGED <<call, frame, codec>>

NextCallers ==
    \/ \E t \in Callers : Enter(t)
    \/ \E t \in Callers : Return(t)

SpecCallers == InitCallers /\ [][NextCallers]_vars

TypeOK ==
    /\ op \in FloatOps \cup WordOps \cup HalfOps \cup ByteOps \cup CloseOps
                \cup {"callers"}
    /\ x.s \in 0..1 /\ x.e \in 0..255 /\ x.m \in 0..\h7FFFFF
    /\ w.hi \in 0..65535 /\ w.lo \in 0..65535
    /\ h \in 0..65535
    /\ b8 \in 0..255
    /\ cl.a.c \in {"fin", "inf", "nan"} /\ cl.b.c \in {"fin", "inf", "nan"}
    /\ cl.significand \in SigInputs /\ cl.result \in BOOLEAN
    /\ \A t \in Callers : pc[t] \in {"idle", "entered", "returned"}

(***************************************************************************)
(* Vocabulary of the properties.                                           *)
(***************************************************************************)
\* the upper and the lower 16 bits of a float's pattern
Upper16(v) == v.s * 32768 + v.e * 128 + v.m \div 65536

Lower16(v) == v.m % 65536

SignedInf16(s) == s * 32768 + \h7C00

SignedZero16(s) == s * 32768

\* 2^-14 <= |v| <= 65504
HalfNormalRange(v) == v.e \in 113..142 /\ (v.e < 142 \/ v.m <= \h7FE000)

\* the fields of a bf16 pattern
BfExp(b) == (b \div 128) % 256

BfMant(b) == b % 128

(***************************************************************************)
(* C1: encode_float32 and decode_float32 are inverse reinterpretations:    *)
(* encoding the float decoded from a word gives the word back, and         *)
(* decoding the word encoded from a float gives the float back, bit for    *)
(* bit, NaN payloads, zeros, infinities and subnormals included.           *)
(***************************************************************************)
C1_Reinterpret ==
    [][/\ (op = "decode_float32" /\ op' = "encode_float32") => w' = w
       /\ (op = "encode_float32" /\ op' = "decode_float32") => x' = x]_vars

C1_Witness ==
    /\ op = "encode_float32"
    /\ IsNaN(x) /\ x.s = 1 /\ x.m = 1
    /\ w = U32(\hFF80, \h0001)

(***************************************************************************)
(* C2: in half precision's normal range encode_float16 returns the sign of *)
(* the input and the nearest half magnitude; of two equally near ones the  *)
(* one with an even mantissa.  Distances are in units of the input's last  *)
(* place: the half below is x.m % 2^13 away, the next one 2^13 further.    *)
(***************************************************************************)
C2_NearestEven ==
    (op = "encode_float16" /\ HalfNormalRange(x)) =>
        LET lower == (x.e - 112) * 1024 + x.m \div 8192
            below == x.m % 8192
            above == 8192 - below
            mag == h % 32768
        IN  /\ h \div 32768 = x.s
            /\ mag \in {lower, lower + 1}
            /\ mag = lower => below <= above
            /\ mag = lower + 1 => above <= below
            /\ below = above => mag % 2 = 0

C2_Witness ==
    /\ op = "encode_float16"
    /\ HalfNormalRange(x) /\ x.s = 1
    /\ x.m % 8192 = 4096 /\ (x.m \div 8192) % 2 = 1
    /\ h = 32768 + (x.e - 112) * 1024 + x.m \div 8192 + 1

(***************************************************************************)
(* C3: for an input that is not NaN and whose exponent field is not zero,  *)
(* encode_bfloat16 returns the upper 16 bits plus one when the lower 16    *)
(* bits are above 0x8000, or equal 0x8000 with the lowest kept bit set,    *)
(* and the upper 16 bits otherwise.                                        *)
(***************************************************************************)
C3_RoundNearestEven ==
    (op = "encode_bfloat16" /\ ~IsNaN(x) /\ x.e # 0) =>
        LET up == \/ Lower16(x) > \h8000
                  \/ (Lower16(x) = \h8000 /\ Upper16(x) % 2 = 1)
        IN  h = IF up THEN Upper16(x) + 1 ELSE Upper16(x)

(***************************************************************************)
(* C4: decode_bfloat16 of encode_bfloat16 of a float that is not NaN and   *)
(* whose lower 16 bits are zero is that float, bit for bit.                *)
(***************************************************************************)
C4_TruncationIdentity ==
    [][(/\ op = "encode_bfloat16" /\ op' = "decode_bfloat16"
        /\ ~IsNaN(x) /\ Lower16(x) = 0) => x' = x]_vars

(***************************************************************************)
(* C5 as stated: every input that is not NaN and whose magnitude exceeds   *)
(* 65504 encodes to the half Infinity of its sign.                         *)
(***************************************************************************)
C5_Original ==
    (/\ op = "encode_float16" /\ ~IsNaN(x)
     /\ (x.e > 142 \/ (x.e = 142 /\ x.m > \h7FE000))) =>
        h = SignedInf16(x.s)

(***************************************************************************)
(* C5 amended: every input that is not NaN and whose magnitude is at least *)
(* 65520, half-way between 65504 and 2^16, encodes to the half Infinity of *)
(* its sign; 1.0e10 and +Infinity both encode to 0x7C00.                   *)
(***************************************************************************)
C5_Saturation ==
    (/\ op = "encode_float16" /\ ~IsNaN(x)
     /\ (x.e > 142 \/ (x.e = 142 /\ x.m >= \h7FF000))) =>
        h = SignedInf16(x.s)

C5_Witness ==
    /\ op = "encode_float16"
    /\ x = F32(1, 142, \h7FF000)
    /\ h = \hFC00

(***************************************************************************)
(* C6 as stated: every input of magnitude below 2^-24 encodes to the zero  *)
(* of its sign.                                                            *)
(***************************************************************************)
C6_Original ==
    (op = "encode_float16" /\ x.e < 103) => h = SignedZero16(x.s)

(***************************************************************************)
(* C6 amended: every input of magnitude at most 2^-25, half the smallest   *)
(* half subnormal, encodes to the zero of its sign.                        *)
(***************************************************************************)
C6_FlushToZero ==
    (op = "encode_float16" /\ (x.e < 102 \/ (x.e = 102 /\ x.m = 0))) =>
        h = SignedZero16(x.s)

C6_Witness ==
    /\ op = "encode_float16"
    /\ x = F32(1, 102, 0)
    /\ h = \h8000

(***************************************************************************)
(* C7: every NaN encodes to the half pattern 0x7E00 under its sign bit,    *)
(* whatever its payload.                                                   *)
(***************************************************************************)
C7_QuietNaN ==
    (op = "encode_float16" /\ IsNaN(x)) => h = x.s * 32768 + \h7E00

C7_Witness ==
    /\ op = "encode_float16"
    /\ IsNaN(x) /\ x.s = 0 /\ x.m = 1
    /\ h = \h7E00

(***************************************************************************)
(* C8: encode_bfloat16 of a NaN is the upper 16 bits of the NaN with bit 6 *)
(* set, a pattern of exponent 255 and nonzero mantissa, and                *)
(* decode_bfloat16 of it is a NaN.                                         *)
(***************************************************************************)
C8_NaNStaysNaN ==
    [][/\ (op' = "encode_bfloat16" /\ IsNaN(x')) =>
            /\ h' = IF (Upper16(x') \div 64) % 2 = 1
                    THEN Upper16(x')
                    ELSE Upper16(x') + 64
            /\ BfExp(h') = 255 /\ BfMant(h') # 0
       /\ (op = "encode_bfloat16" /\ IsNaN(x) /\ op' = "decode_bfloat16") =>
            IsNaN(x')]_vars

C8_Witness ==
    /\ op = "encode_bfloat16"
    /\ IsNaN(x) /\ x.s = 1 /\ x.m = 1
    /\ h = \hFFC0

(***************************************************************************)
(* C9: decode_bfloat16 of a pattern of exponent 255 and nonzero mantissa   *)
(* is a NaN.                                                               *)
(***************************************************************************)
C9_NaNPatterns ==
    (op = "decode_bfloat16" /\ BfExp(h) = 255 /\ BfMant(h) # 0) => IsNaN(x)

(***************************************************************************)
(* C10: decode_bfloat16 of 0x7F80 is +Infinity and of 0xFF80 -Infinity,    *)
(* and encode_bfloat16 gives the pattern back.                             *)
(***************************************************************************)
C10_SignedInfinity ==
    [][/\ (op' = "decode_bfloat16" /\ h' \in {\h7F80, \hFF80}) =>
            x' = F32(h' \div 32768, 255, 0)
       /\ (/\ op = "decode_bfloat16" /\ h \in {\h7F80, \hFF80}
           /\ op' = "encode_bfloat16") => h' = h]_vars

(***************************************************************************)
(* Vocabulary of the 8-bit and half-precision properties.                  *)
(***************************************************************************)
\* the fields of an f8 pattern in the layout sign:1, exponent:4, mantissa:3
F8Exp(p) == (p \div 8) % 16

F8Mant(p) == p % 8

\* the fields of a half pattern
HalfExp(p) == (p \div 1024) % 32

HalfMant(p) == p % 1024

\* |u| < |v| for floats that are not NaN
MagLess(u, v) == u.e < v.e \/ (u.e = v.e /\ u.m < v.m)

\* position of the highest set bit of n > 0
RECURSIVE HighBit(_)
HighBit(n) == IF n < 2 THEN 0 ELSE 1 + HighBit(n \div 2)

\* the float of sign s and value n * 2^-24, for 0 <= n < 1024
HalfSubnormalValue(s, n) ==
    IF n = 0 THEN F32(s, 0, 0)
    ELSE LET k == HighBit(n)
         IN  F32(s, 103 + k, (n - Pow2(k)) * Pow2(23 - k))

\* |v| > 240 = 2^7 * (1 + 7/8), the largest finite f8 value, or v infinite
AboveF8Max(v) == ~IsNaN(v) /\ (v.e > 134 \/ (v.e = 134 /\ v.m > \h700000))

(***************************************************************************)
(* C11: encode_float8 of an Infinity, or of a finite float above the       *)
(* largest finite f8 value, is the f8 Infinity of its sign (0x78 or 0xF8), *)
(* and decode_float8 of it is the Infinity of that sign.                   *)
(***************************************************************************)
C11_SaturateToInfinity ==
    [][/\ (op' = "encode_float8" /\ AboveF8Max(x')) =>
            b8' = x'.s * 128 + \h78
       /\ (op = "encode_float8" /\ AboveF8Max(x) /\ op' = "decode_float8") =>
            x' = F32(x.s, 255, 0)]_vars

(***************************************************************************)
(* C12: encode_float8 of a zero, or of a float below the smallest f8       *)
(* subnormal 2^-9 (every f32 subnormal included), is the zero of its sign, *)
(* 0x00 or 0x80.                                                           *)
(***************************************************************************)
C12_FlushToSignedZero ==
    (op = "encode_float8" /\ x.e < 118) => b8 = x.s * 128

(***************************************************************************)
(* C13: a float (-1)^s * 2^E * (1 + m/8) with -6 <= E <= 7 encodes to      *)
(* (s << 7) | ((E + 7) << 3) | m, and that pattern decodes to the float;   *)
(* 1.0f is 0x38.                                                           *)
(***************************************************************************)
C13_LayoutBias7 ==
    [][/\ (op' = "encode_float8" /\ x'.e \in 121..134
           /\ x'.m % \h100000 = 0) =>
            b8' = x'.s * 128 + (x'.e - 120) * 8 + x'.m \div \h100000
       /\ (op = "encode_float8" /\ x.e \in 121..134 /\ x.m % \h100000 = 0
           /\ op' = "decode_float8") =>
            x' = x]_vars

(***************************************************************************)
(* C14: decode_float8 of a pattern whose 4-bit exponent is all ones is NaN *)
(* when the 3-bit mantissa is not zero and the Infinity of the pattern's   *)
(* sign when it is zero; no other pattern decodes to Infinity or NaN.      *)
(***************************************************************************)
C14_InfinityAndNaNPatterns ==
    op = "decode_float8" =>
        /\ (F8Exp(b8) = 15 /\ F8Mant(b8) # 0) => IsNaN(x)
        /\ (F8Exp(b8) = 15 /\ F8Mant(b8) = 0) => x = F32(b8 \div 128, 255, 0)
        /\ F8Exp(b8) # 15 => x.e # 255

(***************************************************************************)
(* C15: decode_float8 of a subnormal pattern (exponent 0, mantissa not 0)  *)
(* is finite, not zero, has the pattern's sign, is smaller in magnitude    *)
(* than the smallest normal of that sign, and grows with the mantissa.     *)
(***************************************************************************)
C15_SubnormalDecode ==
    (op = "decode_float8" /\ F8Exp(b8) = 0 /\ F8Mant(b8) # 0) =>
        /\ x.e # 255 /\ ~IsZero(x)
        /\ x.s = b8 \div 128
        /\ MagLess(x, decode_float8((b8 \div 128) * 128 + 8))
        /\ F8Mant(b8) > 1 => MagLess(decode_float8(b8 - 1), x)

(***************************************************************************)
(* C16: for a float whose rebiased exponent r = e - 127 + 3 is in -3..0,   *)
(* encode_float8 returns a subnormal: the sign of the float, exponent      *)
(* field zero, and the mantissa (0x10 | upper four fraction bits) shifted  *)
(* right by 1 - r.                                                         *)
(***************************************************************************)
C16_SubnormalEncode ==
    (op = "encode_float8" /\ x.e \in 121..124) =>
        b8 = x.s * 128 + (16 + x.m \div \h80000) \div Pow2(125 - x.e)

C18_ExactDecode ==
    (op = "decode_float16" /\ HalfExp(h) # 31) =>
        x = IF HalfExp(h) = 0
            THEN HalfSubnormalValue(h \div 32768, HalfMant(h))
            ELSE F32(h \div 32768, HalfExp(h) + 112, HalfMant(h) * 8192)

C18_Witness ==
    /\ op = "decode_float16"
    /\ h = \h8005
    /\ x = F32(1, 105, \h200000)

(***************************************************************************)
(* C19: decode_float16 of a pattern whose exponent is 31 is the Infinity   *)
(* of the pattern's sign when the mantissa is zero and a NaN otherwise;    *)
(* decode_float16 of encode_float16 of a NaN is a NaN.                     *)
(***************************************************************************)
C19_InfinityAndNaN ==
    [][/\ (op' = "decode_float16" /\ HalfExp(h') = 31) =>
            IF HalfMant(h') = 0
            THEN x' = F32(h' \div 32768, 255, 0)
            ELSE IsNaN(x')
       /\ (op = "encode_float16" /\ IsNaN(x) /\ op' = "decode_float16") =>
            IsNaN(x')]_vars

C19_Witness ==
    /\ op = "decode_float16"
    /\ h = \hFE00
    /\ IsNaN(x) /\ x.s = 1

(***************************************************************************)
(* C20: for 2^-24 <= |x| < 2^-14 encode_float16 returns the sign of x and  *)
(* the integer nearest to |x| * 2^24, the even one of two equally near:    *)
(* a half subnormal, or 0x0400 when the rounding carries; never zero.      *)
(* Distances are in units of the input's last place.                       *)
(***************************************************************************)
C20_GradualUnderflow ==
    (op = "encode_float16" /\ x.e \in 103..112) =>
        LET unit == Pow2(126 - x.e)
            lower == (\h800000 + x.m) \div unit
            below == (\h800000 + x.m) % unit
            above == unit - below
            mag == h % 32768
        IN  /\ h \div 32768 = x.s
            /\ mag \in {lower, lower + 1}
            /\ mag = lower => below <= above
            /\ mag = lower + 1 => above <= below
            /\ below = above => mag % 2 = 0
            /\ mag >= 1 /\ mag <= \h0400

C20_Witness ==
    /\ op = "encode_float16"
    /\ x = F32(1, 103, \h400000)
    /\ h = \h8002

(***************************************************************************)
(* C21: encode_bfloat16 of a float whose exponent field is zero is the     *)
(* zero of its sign, 0x0000 or 0x8000, and decode_bfloat16 of a pattern    *)
(* whose exponent field is zero, whatever its mantissa, is the zero of the *)
(* pattern's sign.                                                         *)
(***************************************************************************)
C21_NoSubnormals ==
    /\ (op = "encode_bfloat16" /\ x.e = 0) => h = x.s * 32768
    /\ (op = "decode_bfloat16" /\ BfExp(h) = 0) => x = F32(h \div 32768, 0, 0)

C21_Witness ==
    /\ op = "encode_bfloat16"
    /\ x = F32(1, 0, \h7FFFFF)
    /\ h = \h8000

(***************************************************************************)
(* C22: encode_bfloat16 of a float that is not NaN has the sign of the     *)
(* float and is not a NaN pattern; the largest finite floats, of pattern   *)
(* 0x7F7FFFFF and 0xFF7FFFFF, encode to the Infinity 0x7F80 and 0xFF80.    *)
(***************************************************************************)
C22_NoWrap ==
    (op = "encode_bfloat16" /\ ~IsNaN(x)) =>
        /\ h \div 32768 = x.s
        /\ ~(BfExp(h) = 255 /\ BfMant(h) # 0)
        /\ (x.e = 254 /\ x.m = \h7FFFFF) => h = x.s * 32768 + \h7F80

C22_Witness ==
    /\ op = "encode_bfloat16"
    /\ x = F32(1, 254, \h7FFFFF)
    /\ h = \hFF80

(***************************************************************************)
(* C28: encode_float16 of decode_float16 of a half pattern is the pattern  *)
(* itself when it is not a NaN, zeros, subnormals and infinities included, *)
(* and 0x7E00 under the pattern's sign bit when it is a NaN.               *)
(***************************************************************************)
C28_HalfRoundTrip ==
    [][(op = "decode_float16" /\ op' = "encode_float16") =>
            h' = IF HalfExp(h) = 31 /\ HalfMant(h) # 0
                 THEN (h \div 32768) * 32768 + \h7E00
                 ELSE h]_vars

C28_Witness ==
    /\ op = "encode_float16"
    /\ x = F32(1, 105, \h200000)
    /\ h = \h8005

(***************************************************************************)
(* C29: encode_float8 of decode_float8 of an 8-bit pattern that does not   *)
(* decode to a NaN is the pattern itself.                                  *)
(***************************************************************************)
C29_ByteRoundTrip ==
    [][(op = "decode_float8" /\ ~IsNaN(x) /\ op' = "encode_float8") =>
            b8' = b8]_vars

(***************************************************************************)
(* Vocabulary of the float_is_close properties.                            *)
(***************************************************************************)
Closed == op \in {"float_is_close", "float_is_close_swapped"}

IsFinite(v) == v.c = "fin"

Max(i, j) == IF i >= j THEN i ELSE j

Abs(i) == IF i < 0 THEN 0 - i ELSE i

(***************************************************************************)
(* C23: for finite a # b and every significand n, float_is_close(a, b, n)  *)
(* is true exactly when |a - b| <= max(r * max(|a|, |b|), t) with          *)
(* r = t = 10^-|n|, that is when |a - b| * 10^|n| <= max(|a|, |b|, 1);     *)
(* with n = 3 it is true of 1.0 and 1.0001f and false of 1.0 and 1.1f.     *)
(***************************************************************************)
C23_Tolerance ==
    /\ (/\ Closed /\ IsFinite(cl.a) /\ IsFinite(cl.b)
        /\ Units(cl.a) # Units(cl.b)) =>
            cl.result =
                (Abs(Units(cl.a) - Units(cl.b))
                    <= Max(Max(cl.a.n, cl.b.n), Unit)
                           \div Pow10(Abs(cl.significand)))
    /\ (/\ op = "float_is_close" /\ cl.significand = 3
        /\ cl.a = Fin(0, Unit) /\ cl.b = Fin(0, Unit + 839)) => cl.result
    /\ (/\ op = "float_is_close" /\ cl.significand = 3
        /\ cl.a = Fin(0, Unit) /\ cl.b = Fin(0, Unit + 838861)) => ~cl.result

C23_Witness ==
    /\ op = "float_is_close"
    /\ cl = Frame_of(Fin(0, Unit), Fin(0, Unit + 838861), -3, FALSE)

(***************************************************************************)
(* C24: float_is_close(b, a, n) is float_is_close(a, b, n), whatever the   *)
(* arguments: NaN, infinities and signed zeros included.                   *)
(***************************************************************************)
C24_Symmetric ==
    [][op' = "float_is_close_swapped" => cl'.result = cl.result]_vars

C24_Witness ==
    /\ op = "float_is_close_swapped"
    /\ cl = Frame_of(Fin(0, Unit + 838861), Fin(0, Unit), 1, TRUE)

(***************************************************************************)
(* C25: float_is_close is false when an argument is NaN, both being NaN    *)
(* included, and when the arguments are infinities of opposite sign.       *)
(***************************************************************************)
C25_NaNAndOppositeInfinities ==
    (/\ Closed
     /\ \/ isnan(cl.a)
        \/ isnan(cl.b)
        \/ isinf(cl.a) /\ isinf(cl.b) /\ cl.a.s # cl.b.s) => ~cl.result

C25_Witness ==
    /\ op = "float_is_close"
    /\ cl = Frame_of(Dbl("nan", 0, 0, 0), Dbl("nan", 0, 0, 0), 2, FALSE)

(***************************************************************************)
(* C26: float_is_close is true when the arguments are numerically equal:   *)
(* two equal finite values, +0.0 and -0.0, two infinities of one sign.     *)
(***************************************************************************)
C26_EqualIsClose ==
    (/\ Closed
     /\ \/ IsFinite(cl.a) /\ IsFinite(cl.b) /\ Units(cl.a) = Units(cl.b)
        \/ isinf(cl.a) /\ isinf(cl.b) /\ cl.a.s = cl.b.s) => cl.result

C26_Witness ==
    /\ op = "float_is_close"
    /\ cl = Frame_of(Dbl("inf", 1, 0, 0), Dbl("inf", 1, 0, 0), 2, TRUE)

(***************************************************************************)
(* C27: a call's result is the value of the function at the call's own     *)
(* arguments, whatever the other callers do between its entry and its      *)
(* return and whatever calls were made before.                             *)
(***************************************************************************)
C27_NoSharedState ==
    \A t \in Callers :
        pc[t] = "returned" =>
            /\ ret[t].fn = call[t].fn
            /\ ret[t].val = Apply(call[t])

C27_Witness ==
    /\ pc[1] = "returned" /\ pc[2] = "entered"
    /\ call[1] = [fn |-> "encode_float32", par |-> F32(0, 130, \h200000)]
    /\ call[2] = [fn |-> "encode_float32", par |-> F32(1, 127, \h400000)]
    /\ ret[1] = [fn |-> "encode_float32", val |-> U32(\h4120, 0)]

(***************************************************************************)
(* C30: float_is_close is false when one argument is an infinity and the   *)
(* other is finite.                                                        *)
(***************************************************************************)
C30_OneInfinite ==
    (/\ Closed
     /\ \/ isinf(cl.a) /\ IsFinite(cl.b)
        \/ IsFinite(cl.a) /\ isinf(cl.b)) => ~cl.result

C30_Witness ==
    /\ op = "float_is_close"
    /\ cl = Frame_of(Dbl("inf", 0, 0, 0), Fin(0, 100 * Unit), 0, FALSE)

====
